---------------------------- MODULE Spec2Model ----------------------------
(*
  Exo-MAFT: the spectrum merge (exomaft/data/maft_combine.py), the feature
  tracking script (exomaft/maft_feature_tracking.py) and the cross-correlation
  engine (exomaft/maft_cross_correlation.py).

  Numbers.  Depths are fixed-point integers in units of half a ppm (5e-7), so
  that a median of two loaded values is exact; wavelengths are integers in
  micrometres.  A float that may be NaN or infinite is a record [k, v].
  The merge, the loaders and the correlation run are computed in exact
  arithmetic.  Rounding is modelled where the result of zscore is examined on
  its own: there np.mean is computed in a binary floating-point format of
  Precision significant bits, rounding to nearest, ties to even.

  Directory creation, plotting and the formatting of the written files are
  left out (they are the collaborators of the processing core).
*)
EXTENDS Integers, Sequences, FiniteSets, TLC

VARIABLES
    \* ---- maft_combine.py
    file_niriss, file_comb, file_arch, file_prism,   \* the four input tables
    df_niriss, df_comb, df_arch, df_prism,           \* the loaded data frames
    combined,                                        \* the merged table
    pc,                                              \* position in the script
    \* ---- the files the two analysis programs read
    par_file,            \* the line catalog: a sequence of fixed-width rows
    combined_spectrum,   \* output/combined_spectrum.txt: (wavelength, depth)
    \* ---- a catalog loader applied as a function
    loaded,              \* [by, raised, rows]
    \* ---- maft_feature_tracking.py
    ft_pc, ft_wave, ft_depth, out_rows, ft_err,
    \* ---- maft_cross_correlation.py: the CrossCorrelator and its run
    molecules, top_n, bin_width,             \* self.*, set by __init__
    cc_pc, cc_err,
    wave, depth, lines,                      \* what the run loaded
    next_mol,                                \* position in self.molecules
    strongest, bins, inds, centers, tpl,     \* the loop body's locals
    ccf_peaks,
    peaks_file,                              \* the table written at the end
    \* ---- CrossCorrelator.zscore applied as a function
    zs_in,               \* the input vector
    zs_out,              \* [computed, exact], or "none" before the call
    zs_pc

combineVars == << file_niriss, file_comb, file_arch, file_prism,
                  df_niriss, df_comb, df_arch, df_prism, combined, pc >>

fileVars == << par_file, combined_spectrum >>

trackVars == << ft_pc, ft_wave, ft_depth, out_rows, ft_err >>

selfVars == << molecules, top_n, bin_width >>

loopVars == << strongest, bins, inds, centers, tpl >>

ccVars == << selfVars, cc_pc, cc_err, wave, depth, lines, next_mol, loopVars,
             ccf_peaks, peaks_file >>

zscoreVars == << zs_in, zs_out, zs_pc >>

vars == << combineVars, fileVars, loaded, trackVars, ccVars, zscoreVars >>

-----------------------------------------------------------------------------
(* Bounds and value domains *)

\* total number of data rows over the four input tables
MaxRows == 3

\* half-ppm units per ppm: depth = depth_ppm / 1e6
UnitsPerPpm == 2

Wavelengths == {1, 2}
PpmVals     == {0, 1}          \* NIRISS depths, in ppm
DepthVals   == {0, 2, 4}         \* depths given as fractions, in units
ErrVals     == {0, 1}          \* a supplied uncertainty may be zero
WErrVals    == {1}

-----------------------------------------------------------------------------
(* Helpers on sequences *)

SeqsUpTo(S, n) == UNION {[1..k -> S] : k \in 0..n}

RECURSIVE SeqOfSet(_)
\* some enumeration of a finite set of integers, ascending
SeqOfSet(S) ==
    IF S = {} THEN << >>
    ELSE LET m == CHOOSE x \in S : \A y \in S : x <= y
         IN  << m >> \o SeqOfSet(S \ {m})

Range(s) == {s[i] : i \in DOMAIN s}

RECURSIVE SortInts(_)
\* the values of a sequence of integers in ascending order, repeats kept
SortInts(s) ==
    IF s = << >> THEN << >>
    ELSE LET i == CHOOSE k \in DOMAIN s : \A j \in DOMAIN s : s[k] <= s[j]
         IN  << s[i] >> \o SortInts([k \in 1..(Len(s) - 1) |->
                                        IF k < i THEN s[k] ELSE s[k + 1]])

-----------------------------------------------------------------------------
(* Floating-point values that are not numbers *)

Num(x) == [k |-> "num", v |-> x]
NaN    == [k |-> "nan", v |-> 0]
Inf    == [k |-> "inf", v |-> 0]

IsNaN(a) == a.k = "nan"
IsNum(a) == a.k = "num"

\* a + b and a - b of floats (no infinity arises where they are used):
\* NaN is absorbing
FAdd(a, b) == IF IsNaN(a) \/ IsNaN(b) THEN NaN ELSE Num(a.v + b.v)
FSub(a, b) == IF IsNaN(a) \/ IsNaN(b) THEN NaN ELSE Num(a.v - b.v)

\* a == b of floats: NaN equals nothing, itself included
FEq(a, b) == IsNum(a) /\ IsNum(b) /\ a.v = b.v

-----------------------------------------------------------------------------
(* maft_combine.py, section 2: load and prepare the individual spectra *)

\* x / 1e6, in units
FromPpm(x) == Num(x * UnitsPerPpm)

\* 2.1 NIRISS SOSS: depth and depth_err are stored in ppm
LoadNiriss(f) ==
    [i \in DOMAIN f |->
        [wavelength     |-> f[i].wavelength,
         wavelength_err |-> Num(f[i].wavelength_err),
         depth          |-> FromPpm(f[i].depth_ppm),
         depth_err      |-> FromPpm(f[i].depth_err_ppm)]]

\* 2.2 combined model: the table has no error columns
LoadComb(f) ==
    [i \in DOMAIN f |->
        [wavelength     |-> f[i].wavelength,
         wavelength_err |-> Num(0),
         depth          |-> Num(f[i].depth),
         depth_err      |-> Num(0)]]

\* 2.3 archival HST and Spitzer: the ntransits column is dropped
LoadArch(f) ==
    [i \in DOMAIN f |->
        [wavelength     |-> f[i].wavelength,
         wavelength_err |-> Num(f[i].wavelength_err),
         depth          |-> Num(f[i].depth),
         depth_err      |-> Num(f[i].depth_err)]]

\* 2.4 NIRSpec PRISM: the table has no wavelength error column
LoadPrism(f) ==
    [i \in DOMAIN f |->
        [wavelength     |-> f[i].wavelength,
         wavelength_err |-> Num(0),
         depth          |-> Num(f[i].depth),
         depth_err      |-> Num(f[i].depth_err)]]

-----------------------------------------------------------------------------
(* maft_combine.py, section 3: align the baselines *)

Column(df, c) == [i \in DOMAIN df |-> df[i][c]]

\* Series.median(): NaN entries are skipped, the median of nothing is NaN.
\* The two middle values of one frame have the same parity, so the division
\* is exact.
Median(xs) ==
    LET present == SelectSeq(xs, LAMBDA x : ~IsNaN(x))
        v == SortInts([i \in DOMAIN present |-> present[i].v])
        n == Len(v)
    IN  IF n = 0 THEN NaN
        ELSE IF n % 2 = 1 THEN Num(v[(n + 1) \div 2])
        ELSE Num((v[n \div 2] + v[n \div 2 + 1]) \div 2)

\* df['depth'] += (base_med - df['depth'].median())
ShiftDepthBy(df, base_med) ==
    LET shift == FSub(base_med, Median(Column(df, "depth")))
    IN  [i \in DOMAIN df |-> [df[i] EXCEPT !.depth = FAdd(@, shift)]]

\* a slip: the spectrum's own median is not taken off
ShiftDepthNoOwnMedian(df, base_med) ==
    [i \in DOMAIN df |-> [df[i] EXCEPT !.depth = FAdd(@, base_med)]]

ShiftDepth(df, base_med) == ShiftDepthBy(df, base_med)

-----------------------------------------------------------------------------
(* maft_combine.py, section 4: merge *)

\* tmp = df[['wavelength','depth']].copy(); tmp['depth_err'] = df.get(...)
Block(df) ==
    [i \in DOMAIN df |->
        [wavelength |-> df[i].wavelength,
         depth      |-> df[i].depth,
         depth_err  |-> df[i].depth_err]]

\* pd.concat(blocks, ignore_index=True): the rows are relabelled 0..n-1 in
\* the order of the concatenation
Concat(blocks) ==
    LET rows == blocks[1] \o blocks[2] \o blocks[3] \o blocks[4]
    IN  [i \in DOMAIN rows |->
            [index      |-> i - 1,
             wavelength |-> rows[i].wavelength,
             depth      |-> rows[i].depth,
             depth_err  |-> rows[i].depth_err]]

RECURSIVE SortedOrders(_)
\* sort_values('wavelength') with the default kind, quicksort, which is not
\* stable: every ascending arrangement of the rows is a possible result
SortedOrders(S) ==
    IF S = {} THEN {<< >>}
    ELSE LET least == {r \in S : \A q \in S : r.wavelength <= q.wavelength}
         IN  UNION {{<< r >> \o t : t \in SortedOrders(S \ {r})} : r \in least}

SortValuesAny(rows) == SortedOrders(Range(rows))

SortValues(rows) == SortValuesAny(rows)

\* drop_duplicates(subset='wavelength', keep='first')
DropDuplicatesFirst(rows) ==
    SelectSeq(rows, LAMBDA r :
        \A j \in DOMAIN rows :
            rows[j].wavelength = r.wavelength =>
                \A k \in DOMAIN rows : rows[k] = r => k <= j)

\* a slip: the result of drop_duplicates is not kept
DropDuplicatesNotKept(rows) == rows

DropDuplicates(rows) == DropDuplicatesFirst(rows)

-----------------------------------------------------------------------------
(* The parts of the state a program does not touch *)

IdleCombine ==
    /\ file_niriss = << >> /\ file_comb = << >>
    /\ file_arch = << >> /\ file_prism = << >>
    /\ df_niriss = << >> /\ df_comb = << >>
    /\ df_arch = << >> /\ df_prism = << >>
    /\ combined = << >>
    /\ pc = "idle"

IdleFiles == par_file = << >> /\ combined_spectrum = << >>

NotLoaded == [by |-> "none", raised |-> "none", rows |-> << >>]

IdleLoader == loaded = NotLoaded

IdleTracking ==
    /\ ft_pc = "idle"
    /\ ft_wave = << >> /\ ft_depth = << >>
    /\ out_rows = << >>
    /\ ft_err = "none"

NoLocals ==
    /\ strongest = << >> /\ bins = << >> /\ inds = << >>
    /\ centers = << >> /\ tpl = << >>

Unconstructed ==
    /\ molecules = << >> /\ top_n = 0 /\ bin_width = 0
    /\ cc_err = "none"
    /\ wave = << >> /\ depth = << >> /\ lines = << >>
    /\ next_mol = 0
    /\ NoLocals
    /\ ccf_peaks = << >> /\ peaks_file = << >>

IdleCorrelator == cc_pc = "idle" /\ Unconstructed

IdleZscore == zs_in = << >> /\ zs_out = "none" /\ zs_pc = "idle"

-----------------------------------------------------------------------------
(* maft_combine.py as a state machine *)

NirissRows == [wavelength : Wavelengths, wavelength_err : WErrVals,
               depth_ppm : PpmVals, depth_err_ppm : {1}]
CombRows   == [wavelength : Wavelengths, depth : DepthVals]
ArchRows   == [wavelength : Wavelengths, wavelength_err : WErrVals,
               depth : DepthVals, depth_err : ErrVals]
PrismRows  == [wavelength : Wavelengths, depth : DepthVals, depth_err : {1}]

InitCombine ==
    /\ file_niriss \in SeqsUpTo(NirissRows, MaxRows)
    /\ file_arch   \in SeqsUpTo(ArchRows, MaxRows - Len(file_niriss))
    /\ file_prism  \in SeqsUpTo(PrismRows,
                                MaxRows - Len(file_niriss) - Len(file_arch))
    /\ file_comb   \in SeqsUpTo(CombRows,
                                MaxRows - Len(file_niriss) - Len(file_arch)
                                        - Len(file_prism))
    /\ df_niriss = << >> /\ df_comb = << >>
    /\ df_arch = << >> /\ df_prism = << >>
    /\ combined = << >>
    /\ pc = "load"
    /\ IdleFiles /\ IdleLoader /\ IdleTracking /\ IdleCorrelator
    /\ IdleZscore

\* section 2
Load ==
    /\ pc = "load"
    /\ df_niriss' = LoadNiriss(file_niriss)
    /\ df_comb'   = LoadComb(file_comb)
    /\ df_arch'   = LoadArch(file_arch)
    /\ df_prism'  = LoadPrism(file_prism)
    /\ pc' = "align"
    /\ UNCHANGED << file_niriss, file_comb, file_arch, file_prism, combined >>
    /\ UNCHANGED << fileVars, zscoreVars, loaded, trackVars, ccVars >>

\* section 3
Align ==
    /\ pc = "align"
    /\ LET base_med == Median(Column(df_niriss, "depth"))
       IN  /\ df_comb'  = ShiftDepth(df_comb, base_med)
           /\ df_arch'  = ShiftDepth(df_arch, base_med)
           /\ df_prism' = ShiftDepth(df_prism, base_med)
    /\ pc' = "merge"
    /\ UNCHANGED << file_niriss, file_comb, file_arch, file_prism,
                    df_niriss, combined >>
    /\ UNCHANGED << fileVars, zscoreVars, loaded, trackVars, ccVars >>

\* section 4
Merge ==
    /\ pc = "merge"
    /\ \E sorted \in SortValues(Concat(<< Block(df_niriss), Block(df_arch),
                                         Block(df_prism), Block(df_comb) >>)) :
          combined' = DropDuplicates(sorted)
    /\ pc' = "done"
    /\ UNCHANGED << file_niriss, file_comb, file_arch, file_prism,
                    df_niriss, df_comb, df_arch, df_prism >>
    /\ UNCHANGED << fileVars, zscoreVars, loaded, trackVars, ccVars >>

NextCombine == Load \/ Align \/ Merge

SpecCombine == InitCombine /\ [][NextCombine]_vars

-----------------------------------------------------------------------------
(* Claims about the merge *)

\* the concatenation the merge starts from (the frames are not changed by it)
Concatenated ==
    Concat(<< Block(df_niriss), Block(df_arch), Block(df_prism),
              Block(df_comb) >>)

\* what the written table holds of a row: the index is not written
Point(r) == [wavelength |-> r.wavelength, depth |-> r.depth,
             depth_err |-> r.depth_err]

\* whether the source of concatenated row r supplied a depth error: the
\* rows of the combined model, the last block, come with none
Supplied(r) == r.index < Len(df_niriss) + Len(df_arch) + Len(df_prism)

(* C1: the combined spectrum holds no two points of the same wavelength and
   its points are in ascending order of wavelength. *)
C1_UniqueAscending ==
    pc = "done" =>
        \A i, j \in DOMAIN combined :
            i < j => combined[i].wavelength < combined[j].wavelength

\* the merge ran on inputs with a repeated wavelength and kept several points
C1_Witness ==
    /\ pc = "done"
    /\ Len(combined) >= 2
    /\ Len(combined) < Len(Concatenated)

(* C2: of the points that share a wavelength the one kept is the first in
   the order of the concatenation, the later ones are dropped, and a point
   whose wavelength is unique is kept. *)
C2_FirstOccurrenceKept ==
    pc = "done" =>
        LET first == {r \in Range(Concatenated) :
                        \A q \in Range(Concatenated) :
                            q.wavelength = r.wavelength => r.index <= q.index}
        IN  {Point(r) : r \in Range(combined)} = {Point(r) : r \in first}

(* C3: an uncertainty the source did not supply is loaded as absent, never
   as 0.0, and a combined point has a depth_err exactly when a source that
   contributes at its wavelength supplied one. *)
C3_UnknownNeverZero ==
    /\ pc # "load" =>
          /\ \A i \in DOMAIN df_comb :
                IsNaN(df_comb[i].depth_err) /\ IsNaN(df_comb[i].wavelength_err)
          /\ \A i \in DOMAIN df_prism : IsNaN(df_prism[i].wavelength_err)
    /\ pc = "done" =>
          \A i \in DOMAIN combined :
              ~IsNaN(combined[i].depth_err) <=>
                  \E q \in Range(Concatenated) :
                      q.wavelength = combined[i].wavelength /\ Supplied(q)

\* the frames as section 2 loaded them
Loaded(df) ==
    CASE df = "niriss" -> LoadNiriss(file_niriss)
      [] df = "comb"   -> LoadComb(file_comb)
      [] df = "arch"   -> LoadArch(file_arch)
      [] df = "prism"  -> LoadPrism(file_prism)

Frame(df) ==
    CASE df = "niriss" -> df_niriss
      [] df = "comb"   -> df_comb
      [] df = "arch"   -> df_arch
      [] df = "prism"  -> df_prism

NonReference == {"comb", "arch", "prism"}

\* every depth of frame df is its loaded depth plus
\* (reference median - the frame's median as loaded)
ShiftedIndependently(df) ==
    LET base == Median(Column(Loaded("niriss"), "depth"))
        own  == Median(Column(Loaded(df), "depth"))
    IN  /\ Len(Frame(df)) = Len(Loaded(df))
        /\ \A i \in DOMAIN Frame(df) :
              FEq(Frame(df)[i].depth,
                  FAdd(Loaded(df)[i].depth, FSub(base, own)))

MedianAligned(df) ==
    FEq(Median(Column(Frame(df), "depth")),
        Median(Column(df_niriss, "depth")))

(* C4, as claimed: after alignment every non-reference spectrum (that has a
   point at all) has the median depth of the reference, each shifted by
   (reference median - its own median before the shift), and the reference
   is unchanged. *)
C4_EveryMedianAligned ==
    pc \in {"merge", "done"} =>
        /\ df_niriss = Loaded("niriss")
        /\ \A df \in NonReference :
              Len(Frame(df)) > 0 =>
                  MedianAligned(df) /\ ShiftedIndependently(df)

(* C4, amended: the same, when the reference spectrum has at least one
   point.  (With an empty reference its median is NaN and the shift turns
   every depth of the other spectra into NaN.) *)
C4_NonEmptyMedianAligned ==
    pc \in {"merge", "done"} =>
        /\ df_niriss = Loaded("niriss")
        /\ Len(df_niriss) > 0 =>
              \A df \in NonReference :
                  Len(Frame(df)) > 0 =>
                      MedianAligned(df) /\ ShiftedIndependently(df)

\* two non-reference spectra were shifted, by different amounts
C4_Witness ==
    /\ pc = "merge"
    /\ Len(df_niriss) > 0
    /\ \E a, b \in NonReference :
          /\ Len(Frame(a)) > 0 /\ Len(Frame(b)) > 0
          /\ Frame(a)[1].depth.v - Loaded(a)[1].depth.v
                # Frame(b)[1].depth.v - Loaded(b)[1].depth.v
          /\ Frame(a)[1].depth.v # Loaded(a)[1].depth.v
          /\ Frame(b)[1].depth.v # Loaded(b)[1].depth.v


-----------------------------------------------------------------------------
(* The line catalog: fixed-width rows *)

(* A field of a row is the text of its character columns:
     "digits"  one or more digits and nothing else (matches \d+), value v
     "number"  a number that is not all digits, such as 2500.000000, value v
     "text"    text that is no number
     "blank"   only spaces: the readers give NaN
   Of the ten fields the four the programs use are kept: the two ids, the
   wavenumber nu and the line strength sw. *)
Field(t, v) == [t |-> t, v |-> v]

\* 1e4 / nu; the catalogs drawn here hold wavenumbers that divide 1e4
TenThousand == 10000

WavelengthUm(nu) ==
    IF IsNaN(nu) THEN NaN
    ELSE IF nu.v = 0 THEN Inf
    ELSE Num(TenThousand \div nu.v)

\* s.str.strip().str.fullmatch(r'\d+').fillna(False)
is_int(f) == f.t = "digits"

\* pd.to_numeric(..., errors='coerce')
ToNumericCoerce(f) == IF f.t \in {"digits", "number"} THEN Num(f.v) ELSE NaN

\* astype(int) / astype(float) of a column raise on a field that does not
\* convert: int on text and on NaN, float on text only
IntCastRaises(f)   == f.t # "digits"
FloatCastRaises(f) == f.t = "text"

LineRecord(mol, iso, nu, sw) ==
    [molec_id |-> mol, local_iso_id |-> iso, nu |-> nu, sw |-> sw,
     wavelength_um |-> WavelengthUm(nu)]

\* maft_feature_tracking.load_linelist_par
FT_load_linelist_par(file) ==
    LET clean  == SelectSeq(file, LAMBDA r :
                      is_int(r.molec_id) /\ is_int(r.local_iso_id))
        typed  == [i \in DOMAIN clean |->
                      LineRecord(clean[i].molec_id.v, clean[i].local_iso_id.v,
                                 ToNumericCoerce(clean[i].nu),
                                 ToNumericCoerce(clean[i].sw))]
        \* dropna(subset=['nu','sw'])
        kept   == SelectSeq(typed, LAMBDA r : ~IsNaN(r.nu) /\ ~IsNaN(r.sw))
    IN  [raised |-> "none", rows |-> kept]

\* CrossCorrelator.load_linelist_par
CC_load_linelist_par(file) ==
    IF \E i \in DOMAIN file :
          \/ IntCastRaises(file[i].molec_id)
          \/ IntCastRaises(file[i].local_iso_id)
          \/ FloatCastRaises(file[i].nu)
          \/ FloatCastRaises(file[i].sw)
    THEN [raised |-> "ValueError", rows |-> << >>]
    ELSE [raised |-> "none",
          rows   |-> [i \in DOMAIN file |->
                        LineRecord(file[i].molec_id.v, file[i].local_iso_id.v,
                                   ToNumericCoerce(file[i].nu),
                                   ToNumericCoerce(file[i].sw))]]

-----------------------------------------------------------------------------
(* The two loaders applied to a catalog *)

\* number of rows of a catalog
MaxLines == 2

IdFields  == {Field("digits", 1), Field("digits", 2), Field("text", 0),
              Field("blank", 0)}
NuFields  == {Field("number", 2500), Field("number", 0), Field("text", 0),
              Field("blank", 0)}
SwFields  == {Field("number", 1), Field("text", 0), Field("blank", 0)}

AnyRows == [molec_id : IdFields, local_iso_id : IdFields,
            nu : NuFields, sw : SwFields]

InitLoaders ==
    /\ par_file \in SeqsUpTo(AnyRows, MaxLines)
    /\ combined_spectrum = << >>
    /\ IdleLoader /\ IdleCombine /\ IdleTracking /\ IdleCorrelator
    /\ IdleZscore

ApplyTrackingLoader ==
    /\ loaded.by = "none"
    /\ loaded' = [by |-> "feature_tracking"] @@ FT_load_linelist_par(par_file)
    /\ UNCHANGED << combineVars, fileVars, zscoreVars, trackVars, ccVars >>

ApplyCorrelatorLoader ==
    /\ loaded.by = "none"
    /\ loaded' = [by |-> "cross_correlation"] @@ CC_load_linelist_par(par_file)
    /\ UNCHANGED << combineVars, fileVars, zscoreVars, trackVars, ccVars >>

NextLoaders == ApplyTrackingLoader \/ ApplyCorrelatorLoader

SpecLoaders == InitLoaders /\ [][NextLoaders]_vars

\* a row whose two id fields are all digits
ValidIds(r) == is_int(r.molec_id) /\ is_int(r.local_iso_id)

(* C5: a row whose molecule id or isotope id is missing or not all digits
   does not make a loader raise; the row is dropped and every row with valid
   ids and a wavenumber and line strength is returned, in catalog order, by
   every loader. *)
C5_TolerantParse ==
    loaded.by # "none" =>
        /\ loaded.raised = "none"
        /\ \A r \in Range(loaded.rows) :
              \E i \in DOMAIN par_file :
                  /\ ValidIds(par_file[i])
                  /\ r.molec_id = par_file[i].molec_id.v
        /\ Len(loaded.rows)
              = Len(SelectSeq(par_file, LAMBDA r :
                       /\ ValidIds(r)
                       /\ ~IsNaN(ToNumericCoerce(r.nu))
                       /\ ~IsNaN(ToNumericCoerce(r.sw))))

\* the same of the feature tracking loader alone, which does hold
TrackingLoaderTolerant ==
    loaded.by = "feature_tracking" => C5_TolerantParse

(* C6: every record a loader returns has a wavenumber and a line strength
   that are present and a wavenumber greater than 0, so that its wavelength
   is a finite number. *)
C6_LineRecordInvariant ==
    \A r \in Range(loaded.rows) :
        /\ IsNum(r.nu) /\ IsNum(r.sw)
        /\ r.nu.v > 0
        /\ IsNum(r.wavelength_um)

-----------------------------------------------------------------------------
(* maft_feature_tracking.py as a state machine *)

\* MOLECULES, in the order of the dict
MOLECULES == << [name |-> "H2O", id |-> 1], [name |-> "CO2", id |-> 2],
                [name |-> "NH3", id |-> 3], [name |-> "CO",  id |-> 5],
                [name |-> "CH4", id |-> 6], [name |-> "HCN", id |-> 8] >>

\* number of points of the combined spectrum file
MaxPoints == 2

GridWavelengths == {2, 4, 5}

\* the depths a point of each wavelength is drawn from
GridDepths(w) == IF w = 2 THEN {0, 1} ELSE IF w = 4 THEN {1} ELSE {0}

RECURSIVE AscendingSeqs(_, _)
\* the strictly ascending sequences of at most n members of S
AscendingSeqs(S, n) ==
    IF n = 0 \/ S = {} THEN {<< >>}
    ELSE {<< >>} \cup
         UNION {{<< x >> \o t : t \in AscendingSeqs({y \in S : y > x}, n - 1)}
                : x \in S}

\* the spectrum files: ascending wavelengths without repeats, as the merge
\* writes them
SpectrumFiles ==
    UNION {{[i \in DOMAIN g |-> [wavelength |-> g[i], depth |-> d[i]]]
              : d \in {e \in [DOMAIN g -> {0, 1}] :
                          \A i \in DOMAIN g : e[i] \in GridDepths(g[i])}}
           : g \in AscendingSeqs(GridWavelengths, MaxPoints)}

TrackingRows ==
    [molec_id : {Field("digits", 1), Field("digits", 2)},
     local_iso_id : {Field("digits", 1)},
     nu : {Field("number", 2500), Field("number", 5000)},
     sw : {Field("number", 1)}]

InitTracking ==
    /\ par_file \in SeqsUpTo(TrackingRows, MaxLines) \ {<< >>}
    /\ combined_spectrum \in SpectrumFiles \ {<< >>}
    /\ ft_pc = "load"
    /\ ft_wave = << >> /\ ft_depth = << >>
    /\ out_rows = << >>
    /\ ft_err = "none"
    /\ IdleLoader /\ IdleCombine /\ IdleCorrelator
    /\ IdleZscore

\* section 2: spec = pd.read_csv(COMBINED_SPECTRUM, ...); wave, depth
TrackLoadSpectrum ==
    /\ ft_pc = "load"
    /\ ft_wave'  = [i \in DOMAIN combined_spectrum |->
                       combined_spectrum[i].wavelength]
    /\ ft_depth' = [i \in DOMAIN combined_spectrum |->
                       combined_spectrum[i].depth]
    /\ ft_pc' = "cluster"
    /\ UNCHANGED << out_rows, ft_err >>
    /\ UNCHANGED << combineVars, fileVars, zscoreVars, loaded, ccVars >>

\* section 5, the first pass of the loop over MOLECULES: the name `lines` is
\* read (line 140) and nothing has bound it (load_linelist_par is defined in
\* section 3 and never called), so the script stops with NameError.  The
\* feature list of section 6 is never written.
TrackCluster ==
    /\ ft_pc = "cluster"
    /\ Len(MOLECULES) > 0
    /\ ft_err' = "NameError"
    /\ ft_pc' = "failed"
    /\ UNCHANGED zscoreVars
    /\ UNCHANGED << ft_wave, ft_depth, out_rows, combineVars, fileVars,
                    loaded, ccVars >>

NextTracking == TrackLoadSpectrum \/ TrackCluster

SpecTracking == InitTracking /\ [][NextTracking]_vars


-----------------------------------------------------------------------------
(* maft_cross_correlation.py: the numeric steps of run_cross_correlation *)

RECURSIVE Sum(_)
Sum(xs) == IF xs = << >> THEN 0 ELSE Head(xs) + Sum(Tail(xs))

Abs(x) == IF x < 0 THEN 0 - x ELSE x

\* ceil(a / b), b # 0
CeilDiv(a, b) == IF b > 0 THEN 0 - ((0 - a) \div b) ELSE 0 - (a \div (0 - b))

Min(xs) == CHOOSE x \in Range(xs) : \A y \in Range(xs) : x <= y
Max(xs) == CHOOSE x \in Range(xs) : \A y \in Range(xs) : x >= y

RemoveAt(xs, i) ==
    [k \in 1..(Len(xs) - 1) |-> IF k < i THEN xs[k] ELSE xs[k + 1]]

\* a slip: the rows of every molecule are taken
RowsOfAnyMolecule(ls, mol_id) == ls

\* lines[lines['molec_id'] == mol_id]
RowsOf(ls, mol_id) == SelectSeq(ls, LAMBDA r : r.molec_id = mol_id)

RECURSIVE nlargest(_, _)
\* dfm.nlargest(n, 'sw'): the n rows of greatest sw, greatest first; of rows
\* of equal sw the one that comes first in the frame goes first
nlargest(n, dfm) ==
    IF n <= 0 \/ dfm = << >> THEN << >>
    ELSE LET i == CHOOSE k \in DOMAIN dfm :
                    /\ \A j \in DOMAIN dfm : dfm[j].sw.v <= dfm[k].sw.v
                    /\ \A j \in 1..(k - 1) : dfm[j].sw.v < dfm[k].sw.v
         IN  << dfm[i] >> \o nlargest(n - 1, RemoveAt(dfm, i))

\* np.arange(start, stop, step), step # 0: start, start + step, ... short of
\* stop
ArangeExclusive(start, stop, step) ==
    LET n == CeilDiv(stop - start, step)
    IN  [i \in 1..(IF n > 0 THEN n ELSE 0) |-> start + (i - 1) * step]

\* a slip: the stop value is taken in
ArangeInclusive(start, stop, step) ==
    LET n == CeilDiv(stop - start, step) + 1
    IN  [i \in 1..(IF n > 0 THEN n ELSE 0) |-> start + (i - 1) * step]

arange(start, stop, step) == ArangeExclusive(start, stop, step)

\* np.digitize(x, edges), edges ascending: i with edges[i-1] <= x < edges[i],
\* 0 below the first edge and len(edges) from the last edge on
digitize(x, edges) == Cardinality({i \in DOMAIN edges : edges[i] <= x})

\* [strongest[inds == b].mean() for b in np.unique(inds)]: a mean is kept as
\* the sum and the count of its members
ClusterCenters(strong, ind) ==
    LET occupied == SeqOfSet(Range(ind))
    IN  [c \in DOMAIN occupied |->
            LET members == {i \in DOMAIN strong : ind[i] = occupied[c]}
            IN  [bin   |-> occupied[c],
                 sum   |-> Sum([k \in 1..Cardinality(members) |->
                                  strong[SeqOfSet(members)[k]]]),
                 count |-> Cardinality(members)]]

\* np.argmin(np.abs(wave - lam)): the first sample nearest to the mean
Nearest(w, lam) ==
    CHOOSE i \in DOMAIN w :
        /\ \A j \in DOMAIN w :
              Abs(lam.count * w[i] - lam.sum) <= Abs(lam.count * w[j] - lam.sum)
        /\ \A j \in 1..(i - 1) :
              Abs(lam.count * w[j] - lam.sum) > Abs(lam.count * w[i] - lam.sum)

\* tpl = np.zeros_like(depth); tpl[argmin] = 1.0 for every center
Template(w, d, cs) ==
    [i \in DOMAIN d |->
        IF \E c \in DOMAIN cs : Nearest(w, cs[c]) = i THEN 1 ELSE 0]

(* zscore(arr) = (arr - mean) / (std if std > 0 else 1.0).  With n = len(arr),
   dev[i] = n * arr[i] - sum(arr) = n * (arr[i] - mean) and
   q = sum(dev[i]^2) = n^3 * std^2, the result is kept exactly as
   [dev, n, q]: element i is (dev[i] / n) / (sqrt(q / n^3) if q > 0 else 1). *)
zscore(arr) ==
    LET n   == Len(arr)
        dev == [i \in DOMAIN arr |-> n * arr[i] - Sum(arr)]
    IN  [dev |-> dev, n |-> n, q |-> Sum([i \in DOMAIN dev |-> dev[i] * dev[i]])]

(* scipy.signal.correlate(a, b, mode='same') of two vectors of length n:
   full[k] = sum over l of a[l] * b[l - k + n - 1], k = 0..2n-2, and
   same[j] = full[j + (n - 1) // 2], j = 0..n-1.  Computed on the numerators
   dev; the common positive factor of the two z-scores is left out. *)
CorrelateSame(a, b) ==
    LET n == Len(a)
    IN  [j \in 1..n |->
            LET k == (j - 1) + ((n - 1) \div 2)
                ls == {l \in 0..(n - 1) : l - k + n - 1 \in 0..(n - 1)}
            IN  Sum([m \in 1..Cardinality(ls) |->
                        a[SeqOfSet(ls)[m] + 1]
                            * b[SeqOfSet(ls)[m] - k + n - 1 + 1]])]

\* np.max(ccf): the greatest numerator with the two normalisations, which
\* fix the factor
Peak(d, t) ==
    LET d0 == zscore(d)
        tpl0 == zscore(t)
    IN  [num |-> Max(CorrelateSame(d0.dev, tpl0.dev)),
         n |-> Len(d), qd |-> d0.q, qt |-> tpl0.q]

-----------------------------------------------------------------------------
(* maft_cross_correlation.py as a state machine *)

CatalogLine(mol, nu, sw) ==
    [molec_id |-> Field("digits", mol), local_iso_id |-> Field("digits", 1),
     nu |-> Field("number", nu), sw |-> Field("number", sw)]

\* wavelengths 1, 2, 4 and 8 for molecule 1, a stronger line at 4, a line of
\* molecule 2, and a row with a letter for its isotope id
CorrelatorRows ==
    {CatalogLine(1, nu, 1) : nu \in {10000, 5000, 2500, 1250}}
        \cup {CatalogLine(1, 2500, 2), CatalogLine(2, 5000, 1)}
        \cup {[CatalogLine(1, 2500, 1) EXCEPT !.local_iso_id = Field("text", 0)]}

H2O == [name |-> "H2O", id |-> 1]
CO2 == [name |-> "CO2", id |-> 2]
NH3 == [name |-> "NH3", id |-> 3]

\* the molecules argument: a dict, which keeps the order of insertion
MoleculeMaps == {<< H2O, NH3 >>, << NH3, CO2, H2O >>}
TopNs        == {0, 1, 2}
BinWidths    == {0 - 1, 0, 2}

InitCorrelator ==
    /\ par_file \in SeqsUpTo(CorrelatorRows, MaxLines) \ {<< >>}
    /\ combined_spectrum \in SpectrumFiles
    /\ cc_pc = "new"
    /\ Unconstructed
    /\ IdleLoader /\ IdleCombine /\ IdleTracking
    /\ IdleZscore

\* CrossCorrelator.__init__: the arguments are stored as they come
Construct ==
    /\ cc_pc = "new"
    /\ \E m \in MoleculeMaps, n \in TopNs, w \in BinWidths :
          /\ molecules' = m
          /\ top_n' = n
          /\ bin_width' = w
    /\ cc_pc' = "constructed"
    /\ UNCHANGED << cc_err, wave, depth, lines, next_mol, loopVars, ccf_peaks,
                    peaks_file >>
    /\ UNCHANGED << combineVars, fileVars, zscoreVars, loaded, trackVars >>

\* run_cross_correlation, lines 158-161: the spectrum and the catalog are
\* loaded; a catalog that does not convert ends the run
RunLoad ==
    /\ cc_pc = "constructed"
    /\ wave'  = [i \in DOMAIN combined_spectrum |->
                    combined_spectrum[i].wavelength]
    /\ depth' = [i \in DOMAIN combined_spectrum |->
                    combined_spectrum[i].depth]
    /\ LET got == CC_load_linelist_par(par_file)
       IN  IF got.raised # "none"
           THEN /\ cc_pc' = "failed"
                /\ cc_err' = got.raised
                /\ UNCHANGED << lines, next_mol >>
           ELSE /\ cc_pc' = "loop"
                /\ lines' = got.rows
                /\ next_mol' = 1
                /\ UNCHANGED cc_err
    /\ UNCHANGED << selfVars, loopVars, ccf_peaks, peaks_file >>
    /\ UNCHANGED << combineVars, fileVars, zscoreVars, loaded, trackVars >>

\* one pass of the loop over self.molecules, lines 164-188
RunMolecule ==
    /\ cc_pc = "loop"
    /\ next_mol <= Len(molecules)
    /\ LET mol == molecules[next_mol]
           dfm == RowsOf(lines, mol.id)
       IN  IF dfm = << >>
           THEN \* continue
                /\ next_mol' = next_mol + 1
                /\ UNCHANGED << cc_pc, cc_err, loopVars, ccf_peaks >>
           ELSE IF wave = << >>
           THEN \* wave.min() of an empty array
                /\ cc_pc' = "failed"
                /\ cc_err' = "ValueError"
                /\ UNCHANGED << next_mol, loopVars, ccf_peaks >>
           ELSE IF bin_width = 0
           THEN \* np.arange with a step of zero
                /\ cc_pc' = "failed"
                /\ cc_err' = "ZeroDivisionError"
                /\ UNCHANGED << next_mol, loopVars, ccf_peaks >>
           ELSE LET top   == nlargest(top_n, dfm)
                    s     == [i \in DOMAIN top |-> top[i].wavelength_um.v]
                    edges == arange(Min(wave), Max(wave) + bin_width, bin_width)
                    ind   == [i \in DOMAIN s |-> digitize(s[i], edges)]
                    cs    == ClusterCenters(s, ind)
                    t     == Template(wave, depth, cs)
                IN  /\ strongest' = s
                    /\ bins' = edges
                    /\ inds' = ind
                    /\ centers' = cs
                    /\ tpl' = t
                    /\ ccf_peaks' = Append(ccf_peaks,
                                           [molecule |-> mol.name,
                                            ccf_peak |-> Peak(depth, t)])
                    /\ next_mol' = next_mol + 1
                    /\ UNCHANGED << cc_pc, cc_err >>
    /\ UNCHANGED << selfVars, wave, depth, lines, peaks_file >>
    /\ UNCHANGED << combineVars, fileVars, zscoreVars, loaded, trackVars >>

\* lines 194-195: the peak table is written
RunSave ==
    /\ cc_pc = "loop"
    /\ next_mol > Len(molecules)
    /\ peaks_file' = ccf_peaks
    /\ cc_pc' = "done"
    /\ UNCHANGED << selfVars, cc_err, wave, depth, lines, next_mol, loopVars,
                    ccf_peaks >>
    /\ UNCHANGED << combineVars, fileVars, zscoreVars, loaded, trackVars >>

NextCorrelator == Construct \/ RunLoad \/ RunMolecule \/ RunSave

SpecCorrelator == InitCorrelator /\ [][NextCorrelator]_vars


-----------------------------------------------------------------------------
(* Claims about clustering and scoring *)

\* the run has loaded its spectrum
SpectrumLoaded == cc_pc \in {"loop", "done", "failed"}

\* ceil((max_wavelength - min_wavelength) / bin_width)
DomainBins == CeilDiv(Max(wave) - Min(wave), bin_width)

\* the loop has clustered a molecule's lines over a spectrum with points
Clustered ==
    /\ cc_pc \in {"loop", "done"}
    /\ bin_width > 0
    /\ wave # << >>
    /\ \E i \in DOMAIN ccf_peaks : TRUE

(* C7, as claimed: the clusters emitted for a molecule are at most the
   occupied bins, which are at most ceil((max - min) / bin_width), also when
   selected lines lie outside [min, max].  (Stated for a spectrum of two
   points or more.) *)
C7_ClusterBound ==
    (Clustered /\ Len(wave) >= 2) =>
        /\ Len(centers) <= Cardinality(Range(inds))
        /\ Cardinality(Range(inds)) <= DomainBins

(* C7, amended: the clusters emitted are exactly the occupied bins of
   np.digitize, whose indices run from 0 (below min) to
   ceil((max - min) / bin_width) + 1 (from the last edge on, which max itself
   reaches when max - min is a multiple of bin_width): at most
   ceil((max - min) / bin_width) + 2 clusters. *)
C7_ClusterBoundOpenBins ==
    Clustered =>
        /\ Len(centers) = Cardinality(Range(inds))
        /\ \A i \in DOMAIN inds : inds[i] \in 0..(DomainBins + 1)
        /\ Len(centers) <= DomainBins + 2

\* a spectrum of several points, a selected line outside it, and more
\* clusters than ceil((max - min) / bin_width)
C7_Witness ==
    /\ Clustered
    /\ Len(wave) >= 2
    /\ \E i \in DOMAIN strongest :
          strongest[i] < Min(wave) \/ strongest[i] > Max(wave)
    /\ Len(centers) > DomainBins

\* the configured molecules with at least one line in the loaded catalog
Represented(ls) == SelectSeq(molecules, LAMBDA m : RowsOf(ls, m.id) # << >>)

(* C8: a configured molecule with no matching catalog row gives no cluster,
   does not make the run fail and has no row in the peak table nor in the
   feature list; the peak table has exactly one row for each configured
   molecule with a matching line. *)
C8_MoleculeNotRepresented ==
    \* the cross-correlation run
    /\ cc_pc = "done" =>
          [i \in DOMAIN peaks_file |-> peaks_file[i].molecule]
              = [i \in DOMAIN Represented(lines) |-> Represented(lines)[i].name]
    /\ \A i \in DOMAIN ccf_peaks :
          \E m \in Range(Represented(lines)) : m.name = ccf_peaks[i].molecule
    /\ (cc_pc = "failed" /\ next_mol > 0) =>
          RowsOf(lines, molecules[next_mol].id) # << >>
    \* the feature tracking script, which stops in the first pass of its loop
    /\ ft_pc = "failed" =>
          RowsOf(FT_load_linelist_par(par_file).rows, MOLECULES[1].id) # << >>
    /\ \A i \in DOMAIN out_rows :
          \E m \in Range(MOLECULES) :
              /\ m.name = out_rows[i].molecule
              /\ RowsOf(FT_load_linelist_par(par_file).rows, m.id) # << >>

\* the part of C8 that is about the cross-correlation run, which holds
PeakTableRows ==
    /\ cc_pc = "done" =>
          [i \in DOMAIN peaks_file |-> peaks_file[i].molecule]
              = [i \in DOMAIN Represented(lines) |-> Represented(lines)[i].name]
    /\ \A i \in DOMAIN ccf_peaks :
          \E m \in Range(Represented(lines)) : m.name = ccf_peaks[i].molecule
    /\ (cc_pc = "failed" /\ next_mol > 0) =>
          RowsOf(lines, molecules[next_mol].id) # << >>

(* C9: with a combined spectrum of no point or one point, scoring a molecule
   fails with InsufficientDataError and no peak score is produced.  (Stated
   for a positive bin_width.) *)
C9_DegenerateSpectrum ==
    (SpectrumLoaded /\ Len(wave) <= 1 /\ bin_width > 0) =>
        /\ ccf_peaks = << >>
        /\ peaks_file = << >>
        /\ (cc_pc = "failed" /\ next_mol > 0) =>
              cc_err = "InsufficientDataError"

(* C10: constructing the engine with a bin_width of zero or less fails at
   construction with ConfigurationError, before a catalog or spectrum is read
   and before any binning. *)
C10_BinWidthRejected ==
    (cc_pc \notin {"idle", "new"} /\ bin_width <= 0) =>
        /\ cc_pc = "failed"
        /\ cc_err = "ConfigurationError"
        /\ wave = << >> /\ lines = << >> /\ bins = << >>

\* the molecule of the last pass that computed clusters, and its catalog rows
LastMolecule ==
    CHOOSE m \in Range(molecules) :
        m.name = ccf_peaks[Len(ccf_peaks)].molecule

LastRows == RowsOf(lines, LastMolecule.id)

\* the place of row j among rows by line strength descending, rows of equal
\* strength in catalog order
Rank(rows, j) ==
    1 + Cardinality({k \in DOMAIN rows :
                        \/ rows[k].sw.v > rows[j].sw.v
                        \/ rows[k].sw.v = rows[j].sw.v /\ k < j})

\* the selected lines are the first top_n rows of that order
SelectedStrongest ==
    /\ Len(strongest) = Min(<< top_n, Len(LastRows) >>)
    /\ \A i \in DOMAIN strongest :
          \E j \in DOMAIN LastRows :
              /\ Rank(LastRows, j) = i
              /\ strongest[i] = LastRows[j].wavelength_um.v

\* the selected lines that are the members of cluster c
Members(c) == {i \in DOMAIN strongest : inds[i] = centers[c].bin}

\* every selected line is a member of exactly one emitted cluster, and no
\* cluster is empty
InOneCluster ==
    /\ \A i \in DOMAIN strongest :
          Cardinality({c \in DOMAIN centers : i \in Members(c)}) = 1
    /\ \A c \in DOMAIN centers : Members(c) # {}

\* the bin of width bin_width, counted from the spectrum's minimum, that holds
\* wavelength x; a wavelength on an edge is in the bin above the edge
BinOf(x) == (x - Min(wave)) \div bin_width

\* the members of one cluster lie in one bin of width bin_width
SameBin ==
    \A c \in DOMAIN centers :
        \A i, j \in Members(c) : BinOf(strongest[i]) = BinOf(strongest[j])

\* a cluster's center is the arithmetic mean of its members' wavelengths
CenterIsMean ==
    \A c \in DOMAIN centers :
        /\ centers[c].count = Cardinality(Members(c))
        /\ centers[c].sum =
              Sum([k \in 1..Cardinality(Members(c)) |->
                      strongest[SeqOfSet(Members(c))[k]]])

(* C12: the selected lines are the top_n by line strength descending, ties in
   catalog order; every selected line is a member of exactly one emitted
   cluster; the members of one cluster lie in the same bin of width bin_width,
   a wavelength on a bin edge being in the bin above it; and each cluster's
   center is the mean of its members' wavelengths.  (Stated for a spectrum of
   two points or more.) *)
C12_ClusterFormation ==
    (Clustered /\ Len(wave) >= 2) =>
        /\ SelectedStrongest
        /\ InOneCluster
        /\ SameBin
        /\ CenterIsMean

\* what holds of the clusters: all of the above but the bin of the members,
\* and lines in [min, max) of one cluster are in one bin
ClustersOfSelection ==
    Clustered =>
        /\ SelectedStrongest
        /\ InOneCluster
        /\ CenterIsMean
        /\ \A c \in DOMAIN centers :
              \A i, j \in Members(c) :
                  (/\ strongest[i] >= Min(wave) /\ strongest[i] < Max(wave)
                   /\ strongest[j] >= Min(wave) /\ strongest[j] < Max(wave))
                      => BinOf(strongest[i]) = BinOf(strongest[j])

\* the two columns of the combined spectrum file
FileWave ==
    [i \in DOMAIN combined_spectrum |-> combined_spectrum[i].wavelength]

FileDepth ==
    [i \in DOMAIN combined_spectrum |-> combined_spectrum[i].depth]

\* the catalog rows of molecule id, in catalog order
OwnRows(id) ==
    SelectSeq(CC_load_linelist_par(par_file).rows, LAMBDA r : r.molec_id = id)

(* What the combined spectrum, the catalog rows of one molecule, top_n and
   bin_width give for that molecule: its cluster centers, its template and
   its peak score.  Neither self.molecules nor the position in the loop nor
   the loop's locals are read. *)
OwnResult(id, n, w) ==
    LET top   == nlargest(n, OwnRows(id))
        s     == [i \in DOMAIN top |-> top[i].wavelength_um.v]
        edges == arange(Min(FileWave), Max(FileWave) + w, w)
        cs    == ClusterCenters(s, [i \in DOMAIN s |-> digitize(s[i], edges)])
        t     == Template(FileWave, FileDepth, cs)
    IN  [centers |-> cs, tpl |-> t, peak |-> Peak(FileDepth, t)]

\* the molecule of the i-th pair of ccf_peaks
MoleculeOfPair(i) ==
    CHOOSE m \in Range(molecules) : m.name = ccf_peaks[i].molecule

(* C13: the cluster centers, the template and the peak score of a molecule
   are those given by the combined spectrum, the molecule's own catalog rows,
   top_n and bin_width, whatever the other configured molecules and the
   order of processing; a finished run has that pair for every configured
   molecule with catalog rows; and the spectrum's wavelength and depth
   vectors stay as loaded. *)
C13_MoleculeIndependence ==
    /\ \A i \in DOMAIN ccf_peaks :
          ccf_peaks[i].ccf_peak
              = OwnResult(MoleculeOfPair(i).id, top_n, bin_width).peak
    /\ ccf_peaks # << >> =>
          /\ centers = OwnResult(LastMolecule.id, top_n, bin_width).centers
          /\ tpl = OwnResult(LastMolecule.id, top_n, bin_width).tpl
    /\ cc_pc = "done" =>
          \A m \in Range(molecules) :
              OwnRows(m.id) # << >> =>
                  \E i \in DOMAIN peaks_file :
                      peaks_file[i] =
                          [molecule |-> m.name,
                           ccf_peak |-> OwnResult(m.id, top_n, bin_width).peak]
    /\ SpectrumLoaded => wave = FileWave /\ depth = FileDepth

\* a finished run over a spectrum of two points in which H2O was scored
\* after CO2, with a different template and a different peak
C13_Witness ==
    /\ cc_pc = "done"
    /\ Len(wave) >= 2
    /\ bin_width > 0
    /\ Len(peaks_file) = 2
    /\ peaks_file[1].molecule = "CO2"
    /\ peaks_file[2].molecule = "H2O"
    /\ peaks_file[1].ccf_peak # peaks_file[2].ccf_peak
    /\ tpl # OwnResult(CO2.id, top_n, bin_width).tpl


-----------------------------------------------------------------------------
(* CrossCorrelator.zscore in floating point.

   A float is an integer number of units: below 2^Precision every integer is
   a float, from there on the spacing doubles with every power of two, so
   that a float has Precision significant bits.  The result of an operation
   is the float nearest to the exact result, the one of even significand when
   two are as near. *)

\* significant bits of the format (53 in binary64)
Precision == 3

\* longest input vector
MaxVec == 3

RECURSIVE Pow2(_)
Pow2(k) == IF k <= 0 THEN 1 ELSE 2 * Pow2(k - 1)

RECURSIVE Spacing(_, _, _)
\* the spacing of the floats around a / b >= 0, from u up
Spacing(a, b, u) ==
    IF a < b * Pow2(Precision) * u THEN u ELSE Spacing(a, b, 2 * u)

\* a / b >= 0, b > 0, rounded to a float
RoundRatio(a, b) ==
    LET u    == Spacing(a, b, 1)
        lo   == a \div (b * u)
        rest == 2 * (a - lo * b * u)
    IN  IF rest < b * u THEN lo * u
        ELSE IF rest > b * u THEN (lo + 1) * u
        ELSE IF lo % 2 = 0 THEN lo * u ELSE (lo + 1) * u

\* a / b, b > 0, rounded to a float
Fl(a, b) == IF a < 0 THEN 0 - RoundRatio(0 - a, b) ELSE RoundRatio(a, b)

RECURSIVE AddReduce(_, _)
\* np.add.reduce over fewer than eight elements: the elements are added to
\* the first one by one, each sum rounded
AddReduce(acc, xs) ==
    IF xs = << >> THEN acc ELSE AddReduce(Fl(acc + Head(xs), 1), Tail(xs))

\* np.mean(a), a not empty: the rounded sum divided by the length
FloatMean(a) == Fl(AddReduce(Head(a), Tail(a)), Len(a))

(* zscore(arr) in floating point: std = np.std(arr) is the square root of
   the mean of (arr - np.mean(arr))^2, which is > 0 exactly when some element
   differs from the computed mean; the returned vector is
   (arr - np.mean(arr)) / (std if std > 0 else 1.0).  The result is kept as
   the numerators and the divisor taken; an element is 0.0 exactly when its
   numerator is.  Of an empty vector the result is empty. *)
zscore_float(a) ==
    IF a = << >> THEN [num |-> << >>, divisor |-> "one"]
    ELSE LET mean == FloatMean(a)
             num  == [i \in DOMAIN a |-> Fl(a[i] - mean, 1)]
         IN  [num |-> num,
              divisor |-> IF \E i \in DOMAIN num : num[i] # 0
                          THEN "std" ELSE "one"]

\* the values of an input vector, floats of Precision bits
FloatVals == {0, 5, 6, 14}

InitZscore ==
    /\ zs_in \in SeqsUpTo(FloatVals, MaxVec)
    /\ zs_out = "none"
    /\ zs_pc = "input"
    /\ IdleFiles /\ IdleLoader /\ IdleCombine /\ IdleTracking
    /\ IdleCorrelator

\* d0 = self.zscore(depth): the value returned, and the value of the same
\* expression in exact arithmetic
ApplyZscore ==
    /\ zs_pc = "input"
    /\ zs_out' = [computed |-> zscore_float(zs_in),
                   exact    |-> zscore(zs_in)]
    /\ zs_pc' = "returned"
    /\ UNCHANGED zs_in
    /\ UNCHANGED << combineVars, fileVars, loaded, trackVars, ccVars >>

NextZscore == ApplyZscore

SpecZscore == InitZscore /\ [][NextZscore]_vars

\* all elements of the vector are the same value
IsConstant(a) == \A i, j \in DOMAIN a : a[i] = a[j]

(* C11: of a constant vector zscore returns the all-zero vector of the same
   length; of a non-constant vector it returns a vector of the same length
   and element order, of mean 0 and standard deviation 1 (the last two in
   exact arithmetic: the sum of the numerators is 0 and the divisor squared is
   the mean of their squares). *)
C11_ZscoreProperty ==
    zs_pc = "returned" =>
        /\ Len(zs_out.computed.num) = Len(zs_in)
        /\ IsConstant(zs_in) =>
              \A i \in DOMAIN zs_in : zs_out.computed.num[i] = 0
        /\ ~IsConstant(zs_in) =>
              /\ zs_out.computed.divisor = "std"
              /\ \A i, j \in DOMAIN zs_in :
                    zs_in[i] <= zs_in[j] =>
                        zs_out.computed.num[i] <= zs_out.computed.num[j]
              /\ Sum(zs_out.exact.dev) = 0
              /\ zs_out.exact.q > 0
              /\ zs_out.exact.q =
                    Sum([i \in DOMAIN zs_in |->
                            zs_out.exact.dev[i] * zs_out.exact.dev[i]])

\* what holds of zscore: the length, and all that is said of a non-constant
\* vector
ZscoreOfNonConstant ==
    zs_pc = "returned" =>
        /\ Len(zs_out.computed.num) = Len(zs_in)
        /\ ~IsConstant(zs_in) =>
              /\ zs_out.computed.divisor = "std"
              /\ \A i, j \in DOMAIN zs_in :
                    zs_in[i] <= zs_in[j] =>
                        zs_out.computed.num[i] <= zs_out.computed.num[j]
              /\ Sum(zs_out.exact.dev) = 0
              /\ zs_out.exact.q > 0

=============================================================================
